---- MODULE Spec2Model ----
(***************************************************************************)
(* Signature-event lifecycle of legal_practice_stack:                      *)
(* src/server/signature-audit-service.ts over the tables declared in       *)
(* src/drizzle/schema.ts (signatureRequests, signatureEvents,              *)
(* signatureCertificates, signatureComplianceRecords).                     *)
(*                                                                         *)
(* Every exported service function is an async function; each `await` on   *)
(* a persistence call is a point where another caller may run, so a        *)
(* function with several persistence calls is one action per call.  The    *)
(* service opens no database transaction.  The database is MySQL 8 / TiDB  *)
(* in its default strict SQL mode: a value outside a column's enum, a      *)
(* missing parent row of a foreign key and a duplicate unique key make     *)
(* the statement fail and the awaiting function throw.  getDb() returns    *)
(* the connection (DATABASE_URL is set).                                   *)
(*                                                                         *)
(* The second part is the real-time notifier, src/unnamed/part_007          *)
(* (websocket-notifications), with the two procedures of                   *)
(* src/server/efirmas-router.ts that call it.  Its handlers are            *)
(* synchronous but for handleWebSocketConnection, which awaits jwtVerify.  *)
(* The audit service and the notifier share no state: Spec runs the first, *)
(* SpecNotifier the second.                                                *)
(***************************************************************************)
EXTENDS Integers, Sequences, FiniteSets, TLC

\* ---------------------------------------------------------------- bounds
MaxRequests == 1    \* rows of signatureRequests
MaxCalls == 2       \* status-changing service calls started in one behaviour
MaxTime == 2        \* clock values 1..MaxTime
MaxSockets == 2     \* WebSocket connections opened in one behaviour
MaxEvents == 1      \* notification events handed to the notifier
MaxTicks == 2       \* steps the notifier's clock takes
MaxHeartbeats == 1  \* heartbeat messages the clients send
MaxCsvEvents == 2   \* rows of signatureEvents an export reads
MaxStored == 2      \* requests stored when two requests are worked on

\* SQL NULL of a nullable column (signedDate, rejectionReason, actorId, ...)
Null == 0
\* the id of a row of users (requesterId, actorId)
UserId == 7

\* ------------------------------------------------------- schema (enums)
\* signatureRequests.status
Statuses ==
    {"pending", "sent", "viewed", "signed", "rejected", "expired", "cancelled"}

\* signatureEvents.eventType
EventTypes ==
    {"request_created", "request_sent", "document_viewed", "signature_initiated",
     "signature_completed", "signature_rejected", "signature_expired",
     "signature_cancelled", "certificate_verified", "timestamp_generated",
     "audit_accessed"}

\* signatureCertificates.status
CertStatuses == {"valid", "expired", "revoked", "suspended"}

\* ------------------------------------------------------------- inputs
\* updateSignatureRequestStatus takes `status: string`: the seven statuses and
\* one string that is no status ("completed", which would name a stored
\* event type).
StatusInputs == Statuses \cup {"completed"}
\* ids a caller may pass; an id names no request until that request is created
IdInputs == 1..MaxRequests
\* actorId?: number  (absent for a system-triggered call)
ActorInputs == {Null, UserId}
\* documentHash: varchar NOT NULL, so the empty string is storable
HashInputs == {"", "h1"}
\* thumbprint: varchar NOT NULL, likewise
ThumbprintInputs == {"", "t1"}
\* certificateId; it names no certificate until storeCertificate stored it
CertIdInputs == {"c1"}
\* signatureCertificates.status values a caller stores
CertStatusInputs == {"valid", "revoked"}
\* validTo: the first clock value (passed from the second on) or the second
ValidToInputs == {1, 2}
\* expiryDate of a new request (timestamp NOT NULL)
ExpiryInputs == {1}
Procs == {"A", "B"}

\* ------------------------------------------------- notifier: inputs
\* const staleThreshold = 90000
staleThreshold == 90000
\* The notifier's clock advances in steps of the threshold: a heartbeat is
\* 0, 90000 (not yet stale) or more than 90000 ms old.  The interval timer may
\* run checkHeartbeats at any of these times.
ClockStep == staleThreshold
\* the sockets clients open, in the order they connect
Sockets == 1..MaxSockets
\* the token of the connection URL: none, one jwtVerify rejects (bad
\* signature, expired), and one per user it accepts
TokenInputs == {"", "forged", "expired", "admin1", "user3"}
\* NotificationEvent.type of the events the callers of the notifier send
NotificationTypes ==
    {"signature_rejected", "signature_completed", "signature_sent", "audit_alert"}
\* message.eventType of subscribe_to_events / unsubscribe_from_events
EventTypeInputs == {"signature_completed"}
\* the messages a client sends
MessageInputs ==
    {[type |-> "heartbeat", eventType |-> ""], [type |-> "ping", eventType |-> ""]}
    \cup [type : {"subscribe_to_events", "unsubscribe_from_events"},
          eventType : EventTypeInputs]
\* userId of notifyAdmin
AdminIdInputs == {1, 2}
\* how a call of the signing authority ends
AuthorityInputs == {"ok", "throws"}

\* --- inputs of the functions of their arguments alone
\* A text is a sequence of symbols.  The three characters a CSV reader gives
\* a meaning to are symbols of their own; any other symbol stands for a piece
\* of text without them.
Quote == "\""
Comma == ","
Newline == "\n"
\* signerEmail, actorEmail (varchar columns: any text)
EmailInputs == {<<>>, <<"a@x">>, <<"a", Quote, "b@x">>, <<"a", Comma, "b@x">>}
\* the requests table of an export: one row
ExportRequestInputs ==
    [id : {1}, signerEmail : EmailInputs, status : {"sent", "signed"},
     createdAt : 1..MaxTime, signedDate : {Null, MaxTime}]
\* a row of the events table of an export
ExportEventInputs ==
    [signatureRequestId : {1},
     eventType : {"request_created", "signature_completed"},
     actorEmail : EmailInputs \ {<<"a", Comma, "b@x">>},
     createdAt : 1..MaxTime]
\* the events table of an export
ExportEventsInputs ==
    UNION {[1..n -> ExportEventInputs] : n \in 0..MaxCsvEvents}
\* startDate, endDate
WindowInputs == {w \in (1..MaxTime) \X (1..MaxTime) : w[1] <= w[2]}
\* originalDocumentHash, currentDocumentHash, signatureHash
DocumentHashInputs == {"", "h1", "h2"}

VARIABLES
    requests,           \* table signatureRequests, row i has id i
    events,             \* table signatureEvents, row i has id i
    certificates,       \* table signatureCertificates
    complianceRecords,  \* table signatureComplianceRecords
    now,                \* the clock (new Date(), defaultNow())
    pc,                 \* per caller: where its service call stands
    call,               \* per caller: the arguments of its call in flight
    result,             \* per caller: how its last call ended
    ncalls,             \* status-changing service calls started so far
    adminConnections,   \* Map connectionId -> AdminConnection
    connectionsByUserId,\* Map userId -> Set of connectionId
    readyState,         \* per socket: ws.readyState (0 until it connects)
    phase,              \* per socket: where handleWebSocketConnection stands
    token,              \* per socket: the token its handler verifies
    listening,          \* sockets with the message and close handlers attached
    subscriptions,      \* per socket: ws.subscriptions
    sendThrows,         \* open sockets whose ws.send throws
    received,           \* per socket: the messages ws.send delivered
    clock,              \* the notifier's new Date(), in ms
    notified,           \* the types of the events handed to the notifier so far
    nheartbeats,        \* heartbeat messages sent so far
    procedureResult,    \* how the last router procedure ended
    shutdown,           \* whether closeAllConnections ran, and what it met
    pureCall            \* the last call of a function of its arguments alone

vars == <<requests, events, certificates, complianceRecords, now, pc, call,
          result, ncalls>>

tables == <<requests, events, certificates, complianceRecords>>

notifier == <<adminConnections, connectionsByUserId, readyState, phase, token,
              listening, subscriptions, sendThrows, received, clock, notified,
              nheartbeats, procedureResult, shutdown>>

allvars == <<vars, notifier, pureCall>>

NoCall == [op |-> "none", id |-> Null, status |-> "", actorId |-> Null,
           certificateId |-> "", from |-> ""]

\* ------------------------------------------------------ database layer
\* a column without the enum: every string is stored
EventTypeAcceptedAny(t) == TRUE

\* The enum column signatureEvents.eventType accepts exactly its members.
EventTypeAccepted(t) == t \in EventTypes

\* The enum column signatureRequests.status accepts exactly its members.
StatusAccepted(s) == s \in Statuses

\* signatureEvents.signatureRequestId references signatureRequests.id
RequestExists(reqs, id) == id \in 1..Len(reqs)

\* an upsert in place of the INSERT: the newest stored row is overwritten
UpsertEventRow(evs, data, t) ==
    LET row == [id |-> IF evs = <<>> THEN 1 ELSE Len(evs),
                signatureRequestId |-> data.signatureRequestId,
                eventType |-> data.eventType,
                actorId |-> data.actorId,
                certificateId |-> data.certificateId,
                createdAt |-> t]
    IN IF evs = <<>> THEN <<row>> ELSE [evs EXCEPT ![Len(evs)] = row]

\* INSERT INTO signatureEvents: the new row gets the next id and createdAt
\* defaultNow(); the rows already stored are untouched.
InsertEventRow(evs, data, t) ==
    Append(evs, [id |-> Len(evs) + 1,
                 signatureRequestId |-> data.signatureRequestId,
                 eventType |-> data.eventType,
                 actorId |-> data.actorId,
                 certificateId |-> data.certificateId,
                 createdAt |-> t])

\* Does the INSERT of logSignatureEvent succeed?
EventInsertOk(reqs, data) ==
    /\ RequestExists(reqs, data.signatureRequestId)
    /\ EventTypeAccepted(data.eventType)

\* logSignatureEvent(data): one INSERT; on failure it rethrows, storing nothing.
logSignatureEvent(evs, reqs, data, t) ==
    IF EventInsertOk(reqs, data) THEN InsertEventRow(evs, data, t) ELSE evs

\* an UPDATE without its WHERE: every row gets the status
UpdateStatusAllRows(reqs, id, status) ==
    [r \in 1..Len(reqs) |-> [reqs[r] EXCEPT !.status = status]]

\* UPDATE signatureRequests SET status, updatedAt WHERE id = ...
\* (no row matched: nothing changes and the statement succeeds).  The column
\* updatedAt is left out of the rows: nothing reads it.
UpdateStatusRow(reqs, id, status) ==
    IF RequestExists(reqs, id)
    THEN [reqs EXCEPT ![id].status = status]
    ELSE reqs

\* an UPDATE that also stores a hash of its own
UpdateSignedRowRehash(reqs, id, t) ==
    IF RequestExists(reqs, id)
    THEN [reqs EXCEPT ![id].status = "signed", ![id].signedDate = t,
                      ![id].documentHash = ""]
    ELSE reqs

\* UPDATE signatureRequests SET status = 'signed', signedDate, updatedAt
UpdateSignedRow(reqs, id, t) ==
    IF RequestExists(reqs, id)
    THEN [reqs EXCEPT ![id].status = "signed", ![id].signedDate = t]
    ELSE reqs

StatusOfRow(reqs, id) == IF RequestExists(reqs, id) THEN reqs[id].status ELSE ""

\* --------------------------------------------- getSignatureAuditTrail
\* the rows of one request, as indexes into the table
TrailIdx(evs, id) == {i \in 1..Len(evs) : evs[i].signatureRequestId = id}

\* SELECT ... WHERE signatureRequestId = id ORDER BY createdAt DESC: every
\* result the database may return (rows with equal createdAt in any order)
getSignatureAuditTrail(evs, id) ==
    LET I == TrailIdx(evs, id)
        n == Cardinality(I)
        orders == {g \in [1..n -> I] :
                     /\ \A a, b \in 1..n : a # b => g[a] # g[b]
                     /\ \A k \in 1..(n - 1) :
                            evs[g[k]].createdAt >= evs[g[k + 1]].createdAt}
    IN {[k \in 1..n |-> evs[g[k]]] : g \in orders}

\* ------------------------------------------ getSignatureRequestDetails
\* getSignatureRequests({limit: 1, offset: 0}): no condition, ORDER BY
\* createdAt DESC, LIMIT 1 (offset 0 is falsy: no OFFSET).  Every result the
\* database may return: one of the newest rows, or no row of an empty table.
getSignatureRequestsLimit1(reqs) ==
    IF reqs = <<>> THEN {<<>>}
    ELSE {<<reqs[i]>> : i \in {k \in 1..Len(reqs) :
                                  \A j \in 1..Len(reqs) :
                                      reqs[j].createdAt <= reqs[k].createdAt}}

\* the procedure: requests.find(r => r.id === signatureRequestId) over that
\* result, then the audit trail; every answer it may give
getSignatureRequestDetails(reqs, evs, id) ==
    {IF page # <<>> /\ page[1].id = id
     THEN [found |-> TRUE, request |-> page[1], auditTrail |-> trail]
     ELSE [found |-> FALSE, request |-> Null, auditTrail |-> <<>>] :
        page \in getSignatureRequestsLimit1(reqs),
        trail \in getSignatureAuditTrail(evs, id)}

\* --------------------------------------------- generateComplianceReport
\* gte(createdAt, startDate) AND lte(createdAt, endDate)
InWindow(row, startDate, endDate) ==
    startDate <= row.createdAt /\ row.createdAt <= endDate

\* the rows of a table a window selects, as indexes
WindowIdx(rows, startDate, endDate) ==
    {i \in 1..Len(rows) : InWindow(rows[i], startDate, endDate)}

\* the counts and the percentage of the report.  The percentage is
\* (ley81CompliantCount / totalRequests) * 100, here with the fraction cut off.
generateComplianceReport(reqs, recs, startDate, endDate) ==
    LET totalRequests == Cardinality(WindowIdx(reqs, startDate, endDate))
        ley81CompliantCount ==
            Cardinality({i \in WindowIdx(recs, startDate, endDate) :
                            recs[i].ley81Compliant = 1})
    IN [totalRequests |-> totalRequests,
        ley81CompliantCount |-> ley81CompliantCount,
        compliancePercentage |->
            IF totalRequests > 0
            THEN (ley81CompliantCount * 100) \div totalRequests
            ELSE 0]

\* ------------------------------------------------------------- Init
\* the number of notification events handed to the notifier so far
nnotified == Len(notified)

\* an empty Map
EmptyMap == [k \in {} |-> Null]

\* ws.subscriptions before the first subscribe_to_events: undefined
NoSubscriptions == [defined |-> FALSE, items |-> {}]

NoProcedure == [op |-> "none", result |-> "none"]

\* closeAllConnections has not run.  inFlight: the sockets whose handler was
\* awaiting jwtVerify when it ran.
NoShutdown == [done |-> FALSE, inFlight |-> {}]

\* no function is to be called
NoPureCall == [fn |-> "none", args |-> <<>>, called |-> FALSE, ret |-> <<>>]

\* a function and the arguments it is to be called with
PureCallInputs ==
    {[fn |-> "exportAuditTrailToCSV", args |-> <<<<req>>, evs, w[1], w[2]>>,
      called |-> FALSE, ret |-> <<>>] :
        req \in ExportRequestInputs, evs \in ExportEventsInputs,
        w \in WindowInputs}
    \cup
    {[fn |-> "verifySignatureIntegrity", args |-> <<o, c, g>>,
      called |-> FALSE, ret |-> <<>>] :
        o \in DocumentHashInputs, c \in DocumentHashInputs,
        g \in DocumentHashInputs}

\* the notifier after initializeWebSocketServer: no connection yet
NotifierInit ==
    /\ adminConnections = EmptyMap
    /\ connectionsByUserId = EmptyMap
    /\ readyState = [s \in Sockets |-> 0]
    /\ phase = [s \in Sockets |-> "none"]
    /\ token = [s \in Sockets |-> ""]
    /\ listening = {}
    /\ subscriptions = [s \in Sockets |-> NoSubscriptions]
    /\ sendThrows = {}
    /\ received = [s \in Sockets |-> <<>>]
    /\ clock = 0
    /\ notified = <<>>
    /\ nheartbeats = 0
    /\ procedureResult = NoProcedure
    /\ shutdown = NoShutdown

ServiceInit ==
    /\ requests = <<>>
    /\ events = <<>>
    /\ certificates = <<>>
    /\ complianceRecords = <<>>
    /\ now = 1
    /\ pc = [p \in Procs |-> "idle"]
    /\ call = [p \in Procs |-> NoCall]
    /\ result = [p \in Procs |-> "none"]
    /\ ncalls = 0

Init ==
    /\ ServiceInit
    /\ NotifierInit
    /\ pureCall = NoPureCall

\* the service and the notifier at rest, and a function about to be called
InitPure ==
    /\ ServiceInit
    /\ NotifierInit
    /\ pureCall \in PureCallInputs

\* the clock advances
Tick ==
    /\ now < MaxTime
    /\ now' = now + 1
    /\ UNCHANGED <<tables, pc, call, result, ncalls>>
    /\ UNCHANGED <<notifier, pureCall>>

\* A caller starts a call when it has none in flight.  The two callers are
\* interchangeable: "B" is the one that starts while "A" has a call in flight.
CanStart(p) ==
    /\ pc[p] = "idle"
    /\ p = "B" => pc["A"] # "idle"

\* a call goes on to its next persistence call
Goto(p, label, c) ==
    /\ pc' = [pc EXCEPT ![p] = label]
    /\ call' = [call EXCEPT ![p] = c]
    /\ UNCHANGED result

\* a call returns ("ok") or throws ("error")
Finish(p, r) ==
    /\ pc' = [pc EXCEPT ![p] = "idle"]
    /\ call' = [call EXCEPT ![p] = NoCall]
    /\ result' = [result EXCEPT ![p] = r]

\* ------------------------------------------- createSignatureRequest
\* first persistence call: INSERT INTO signatureRequests (status defaults to
\* 'pending', createdAt to now); requesterId is NOT NULL
CreateInsert(p, hash, expiry) ==
    /\ CanStart(p)
    /\ Len(requests) < MaxRequests
    /\ requests' = Append(requests,
            [id |-> Len(requests) + 1, status |-> "pending",
             signedDate |-> Null, rejectionReason |-> Null,
             documentHash |-> hash, expiryDate |-> expiry,
             createdAt |-> now])
    /\ Goto(p, "crt_log", [NoCall EXCEPT !.op = "create",
                                         !.id = Len(requests) + 1,
                                         !.actorId = UserId])
    /\ UNCHANGED <<events, certificates, complianceRecords, now, ncalls>>
    /\ UNCHANGED <<notifier, pureCall>>

\* second persistence call: logSignatureEvent(request_created)
CreateLog(p) ==
    /\ pc[p] = "crt_log"
    /\ LET data == [signatureRequestId |-> call[p].id,
                    eventType |-> "request_created",
                    actorId |-> call[p].actorId, certificateId |-> ""]
       IN /\ events' = logSignatureEvent(events, requests, data, now)
          /\ Finish(p, IF EventInsertOk(requests, data) THEN "ok" ELSE "error")
    /\ UNCHANGED <<requests, certificates, complianceRecords, now, ncalls>>
    /\ UNCHANGED <<notifier, pureCall>>

\* ------------------------------------- updateSignatureRequestStatus
\* first persistence call: the UPDATE of the status, whatever the stored
\* status is.  call.from keeps the status the UPDATE replaced.
UpdateWrite(p, id, status, actor) ==
    /\ CanStart(p)
    /\ ncalls < MaxCalls
    /\ ncalls' = ncalls + 1
    /\ IF StatusAccepted(status)
       THEN /\ requests' = UpdateStatusRow(requests, id, status)
            /\ Goto(p, "upd_log",
                    [NoCall EXCEPT !.op = "update", !.id = id,
                                   !.status = status, !.actorId = actor,
                                   !.from = StatusOfRow(requests, id)])
       ELSE /\ UNCHANGED requests
            /\ Finish(p, "error")
    /\ UNCHANGED <<events, certificates, complianceRecords, now>>
    /\ UNCHANGED <<notifier, pureCall>>

\* eventType: `signature_${status}`
DerivedEventType(status) == "signature_" \o status

\* second persistence call: logSignatureEvent with the derived event type
UpdateLog(p) ==
    /\ pc[p] = "upd_log"
    /\ LET data == [signatureRequestId |-> call[p].id,
                    eventType |-> DerivedEventType(call[p].status),
                    actorId |-> call[p].actorId, certificateId |-> ""]
       IN /\ events' = logSignatureEvent(events, requests, data, now)
          /\ Finish(p, IF EventInsertOk(requests, data) THEN "ok" ELSE "error")
    /\ UNCHANGED <<requests, certificates, complianceRecords, now, ncalls>>
    /\ UNCHANGED <<notifier, pureCall>>

\* ------------------------------------------------- storeCertificate
CertificateOf(certs, cid) == {i \in 1..Len(certs) : certs[i].certificateId = cid}

\* one INSERT INTO signatureCertificates: certificateId is unique, and
\* signatureRequestId (NOT NULL) references a stored request
storeCertificate(cid, status, validTo, thumbprint) ==
    /\ requests # <<>>
    /\ CertificateOf(certificates, cid) = {}
    /\ certificates' = Append(certificates,
            [certificateId |-> cid, status |-> status, validTo |-> validTo,
             thumbprint |-> thumbprint])
    /\ UNCHANGED <<requests, events, complianceRecords, now, pc, call, result,
                   ncalls>>
    /\ UNCHANGED <<notifier, pureCall>>

\* The service has no statement that changes a stored certificate; the status
\* column is downgraded (valid -> revoked) by a writer outside the service.
revokeCertificate(cid) ==
    /\ \E i \in CertificateOf(certificates, cid) :
          /\ certificates[i].status = "valid"
          /\ certificates' = [certificates EXCEPT ![i].status = "revoked"]
    /\ UNCHANGED <<requests, events, complianceRecords, now, pc, call, result,
                   ncalls>>
    /\ UNCHANGED <<notifier, pureCall>>

\* ----------------------------------------- verifySignatureCompliance
\* 1 / 0 of a persisted "boolean as int" flag
Flag(b) == IF b THEN 1 ELSE 0

\* verdicts that take every stored certificate for valid
ComplianceVerdictsAnyStatus(req, cert, t) ==
    [ley81Compliant |-> Flag(cert.validTo > t),
     nonRepudiationVerified |-> Flag(cert.thumbprint # ""),
     certificateValid |-> Flag(TRUE),
     timestampValid |-> Flag(req.signedDate # Null),
     documentIntegrityVerified |-> Flag(req.documentHash # "")]

\* verdicts whose timestamp verdict holds only at the instant of signing
ComplianceVerdictsByAge(req, cert, t) ==
    [ley81Compliant |-> Flag(cert.status = "valid" /\ cert.validTo > t),
     nonRepudiationVerified |-> Flag(cert.thumbprint # ""),
     certificateValid |-> Flag(cert.status = "valid"),
     timestampValid |-> Flag(req.signedDate # Null /\ req.signedDate = t),
     documentIntegrityVerified |-> Flag(req.documentHash # "")]

\* the verdicts computed from the request row, the certificate row and the clock
ComplianceVerdicts(req, cert, t) ==
    [ley81Compliant |-> Flag(cert.status = "valid" /\ cert.validTo > t),
     nonRepudiationVerified |-> Flag(cert.thumbprint # ""),
     certificateValid |-> Flag(cert.status = "valid"),
     timestampValid |-> Flag(req.signedDate # Null),
     documentIntegrityVerified |-> Flag(req.documentHash # "")]

\* can verifySignatureCompliance(id, cid) find both rows?
VerifyOk(reqs, certs, id, cid) ==
    /\ RequestExists(reqs, id)
    /\ CertificateOf(certs, cid) # {}

\* the table of compliance records after verifySignatureCompliance(id, cid):
\* one more row, or the same table when it throws.  sigReq and certificate
\* are no columns: they keep the two rows the call read (sigReq[0], cert[0]).
verifySignatureCompliance(recs, reqs, certs, id, cid, t) ==
    IF VerifyOk(reqs, certs, id, cid)
    THEN LET cert == certs[CHOOSE i \in CertificateOf(certs, cid) : TRUE]
             v == ComplianceVerdicts(reqs[id], cert, t)
         IN Append(recs, [id |-> Len(recs) + 1, signatureRequestId |-> id,
                          ley81Compliant |-> v.ley81Compliant,
                          nonRepudiationVerified |-> v.nonRepudiationVerified,
                          certificateValid |-> v.certificateValid,
                          timestampValid |-> v.timestampValid,
                          documentIntegrityVerified |-> v.documentIntegrityVerified,
                          createdAt |-> t,
                          sigReq |-> reqs[id], certificate |-> cert])
    ELSE recs

\* a direct call of verifySignatureCompliance
Verify(p, id, cid) ==
    /\ CanStart(p)
    /\ ncalls < MaxCalls
    /\ ncalls' = ncalls + 1
    /\ complianceRecords' =
           verifySignatureCompliance(complianceRecords, requests, certificates,
                                     id, cid, now)
    /\ Finish(p, IF VerifyOk(requests, certificates, id, cid) THEN "ok" ELSE "error")
    /\ UNCHANGED <<requests, events, certificates, now>>
    /\ UNCHANGED <<notifier, pureCall>>

\* ---------------------------------------- recordSignatureCompletion
\* first persistence call: UPDATE status = 'signed', signedDate = now
RecordWrite(p, id, cid, actor) ==
    /\ CanStart(p)
    /\ ncalls < MaxCalls
    /\ ncalls' = ncalls + 1
    /\ requests' = UpdateSignedRow(requests, id, now)
    /\ Goto(p, "rec_log",
            [NoCall EXCEPT !.op = "record", !.id = id, !.status = "signed",
                           !.actorId = actor, !.certificateId = cid,
                           !.from = StatusOfRow(requests, id)])
    /\ UNCHANGED <<events, certificates, complianceRecords, now>>
    /\ UNCHANGED <<notifier, pureCall>>

\* second persistence call: logSignatureEvent(signature_completed)
RecordLog(p) ==
    /\ pc[p] = "rec_log"
    /\ LET data == [signatureRequestId |-> call[p].id,
                    eventType |-> "signature_completed",
                    actorId |-> call[p].actorId,
                    certificateId |-> call[p].certificateId]
       IN /\ events' = logSignatureEvent(events, requests, data, now)
          /\ IF EventInsertOk(requests, data)
             THEN Goto(p, "rec_verify", call[p])
             ELSE Finish(p, "error")
    /\ UNCHANGED <<requests, certificates, complianceRecords, now, ncalls>>
    /\ UNCHANGED <<notifier, pureCall>>

\* last step: verifySignatureCompliance(signatureRequestId, certificateId)
RecordVerify(p) ==
    /\ pc[p] = "rec_verify"
    /\ complianceRecords' =
           verifySignatureCompliance(complianceRecords, requests, certificates,
                                     call[p].id, call[p].certificateId, now)
    /\ Finish(p, IF VerifyOk(requests, certificates, call[p].id,
                             call[p].certificateId)
                 THEN "ok" ELSE "error")
    /\ UNCHANGED <<requests, events, certificates, now, ncalls>>
    /\ UNCHANGED <<notifier, pureCall>>

Next ==
    \/ Tick
    \/ \E p \in Procs, h \in HashInputs, x \in ExpiryInputs :
            CreateInsert(p, h, x)
    \/ \E p \in Procs : CreateLog(p)
    \/ \E p \in Procs, id \in IdInputs, s \in StatusInputs, a \in ActorInputs :
            UpdateWrite(p, id, s, a)
    \/ \E p \in Procs : UpdateLog(p)
    \/ \E c \in CertIdInputs, s \in CertStatusInputs, v \in ValidToInputs,
          t \in ThumbprintInputs : storeCertificate(c, s, v, t)
    \/ \E c \in CertIdInputs : revokeCertificate(c)
    \/ \E p \in Procs, id \in IdInputs, c \in CertIdInputs : Verify(p, id, c)
    \/ \E p \in Procs, id \in IdInputs, c \in CertIdInputs, a \in ActorInputs :
            RecordWrite(p, id, c, a)
    \/ \E p \in Procs : RecordLog(p)
    \/ \E p \in Procs : RecordVerify(p)

Spec == Init /\ [][Next]_allvars

\* ======================================================================
\* The expiry sweep
\* ======================================================================
\* No file of src/ holds the sweep.  It is taken as described: it scans the
\* non-terminal requests past their expiryDate and drives each through
\* updateSignatureRequestStatus(id, "expired"), with no actor.

\* the statuses the scan selects
SweepStatuses == {"pending", "sent", "viewed"}

\* the scan has selected request id: the sweep goes on to the transition
SweepSelect(p, id) ==
    /\ CanStart(p)
    /\ ncalls < MaxCalls
    /\ ncalls' = ncalls + 1
    /\ RequestExists(requests, id)
    /\ requests[id].status \in SweepStatuses
    /\ requests[id].expiryDate < now
    /\ Goto(p, "swp_update", [NoCall EXCEPT !.op = "sweep", !.id = id,
                                            !.status = "expired",
                                            !.from = requests[id].status])
    /\ UNCHANGED <<tables, now>>
    /\ UNCHANGED <<notifier, pureCall>>

\* updateSignatureRequestStatus(id, "expired") of the sweep: its UPDATE
SweepUpdate(p) ==
    /\ pc[p] = "swp_update"
    /\ requests' = UpdateStatusRow(requests, call[p].id, "expired")
    /\ Goto(p, "upd_log", [call[p] EXCEPT !.from = StatusOfRow(requests, call[p].id)])
    /\ UNCHANGED <<events, certificates, complianceRecords, now, ncalls>>
    /\ UNCHANGED <<notifier, pureCall>>

NextSweep ==
    \/ Tick
    \/ \E p \in Procs, h \in HashInputs, x \in ExpiryInputs :
            CreateInsert(p, h, x)
    \/ \E p \in Procs : CreateLog(p)
    \/ \E p \in Procs, id \in IdInputs, s \in StatusInputs, a \in ActorInputs :
            UpdateWrite(p, id, s, a)
    \/ \E p \in Procs : UpdateLog(p)
    \/ \E p \in Procs, id \in IdInputs, c \in CertIdInputs, a \in ActorInputs :
            RecordWrite(p, id, c, a)
    \/ \E p \in Procs : RecordLog(p)
    \/ \E p \in Procs : RecordVerify(p)
    \/ \E p \in Procs, id \in IdInputs : SweepSelect(p, id)
    \/ \E p \in Procs : SweepUpdate(p)

SpecSweep == Init /\ [][NextSweep]_allvars

\* ======================================================================
\* Two stored requests
\* ======================================================================

\* the row and the request_created event of a request created at clock 1
CreatedRequest(id) ==
    [id |-> id, status |-> "pending", signedDate |-> Null,
     rejectionReason |-> Null, documentHash |-> "h1", expiryDate |-> 1,
     createdAt |-> 1]

CreatedEvent(id) ==
    [id |-> id, signatureRequestId |-> id, eventType |-> "request_created",
     actorId |-> UserId, certificateId |-> "", createdAt |-> 1]

\* createSignatureRequest has returned MaxStored times and a certificate is
\* stored
InitStored ==
    /\ requests = [id \in 1..MaxStored |-> CreatedRequest(id)]
    /\ events = [id \in 1..MaxStored |-> CreatedEvent(id)]
    /\ certificates = <<[certificateId |-> "c1", status |-> "valid",
                         validTo |-> 2, thumbprint |-> "t1"]>>
    /\ complianceRecords = <<>>
    /\ now = 1
    /\ pc = [p \in Procs |-> "idle"]
    /\ call = [p \in Procs |-> NoCall]
    /\ result = [p \in Procs |-> "none"]
    /\ ncalls = 0
    /\ NotifierInit
    /\ pureCall = NoPureCall

\* the transition calls, on either request
NextStored ==
    \/ \E p \in Procs, id \in 1..MaxStored, s \in StatusInputs,
          a \in ActorInputs : UpdateWrite(p, id, s, a)
    \/ \E p \in Procs : UpdateLog(p)
    \/ \E p \in Procs, id \in 1..MaxStored, c \in CertIdInputs,
          a \in ActorInputs : RecordWrite(p, id, c, a)
    \/ \E p \in Procs : RecordLog(p)
    \/ \E p \in Procs : RecordVerify(p)

SpecStored == InitStored /\ [][NextStored]_allvars

\* ======================================================================
\* The real-time notifier (websocket-notifications)
\* ======================================================================

\* ------------------------------------------------------ Map operations
MapSet(m, k, v) == [x \in (DOMAIN m) \cup {k} |-> IF x = k THEN v ELSE m[x]]

MapDelete(m, k) == [x \in (DOMAIN m) \ {k} |-> m[x]]

\* ---------------------------------------------------------- transport
\* ws.close(code, reason): an open socket starts closing; a socket that is
\* closing or closed stays as it is
wsClose(rs, s) == IF rs[s] = 1 THEN [rs EXCEPT ![s] = 2] ELSE rs

\* does ws.send deliver?  Only on an open socket (readyState 1) whose send
\* does not throw.
SendDelivers(s) == readyState[s] = 1 /\ s \notin sendThrows

\* the messages of the notifier; n numbers the notification events (it is no
\* field of the message: it tells the events of one type apart)
Established == [type |-> "connection_established", n |-> 0]

HeartbeatAck == [type |-> "heartbeat_ack", n |-> 0]

Notification(type, n) == [type |-> type, n |-> n]

\* ------------------------------------------------------------- jwtVerify
\* jwtVerify resolves for a token signed with the secret and not expired
jwtVerifyOk(tok) == tok \in {"admin1", "user3"}

\* verified.payload
jwtPayload(tok) ==
    CASE tok = "admin1" -> [id |-> 1, role |-> "admin"]
      [] OTHER -> [id |-> 3, role |-> "user"]

\* a handler that forgets the role check
RejectedUnlessVerified(tok) == ~jwtVerifyOk(tok)

\* does the handler close the socket without registering it?  (jwtVerify
\* threw, or user.role !== "admin")
Rejected(tok) == ~jwtVerifyOk(tok) \/ jwtPayload(tok).role # "admin"

\* `${user.id}-${Date.now()}-${Math.random()}`: one id per socket
ConnectionId(s) == s

\* ------------------------------------------- handleWebSocketConnection
\* the 'connection' event of an open socket: the handler runs up to its await
\* (a missing token closes the socket at once).  Sockets connect in order.
ConnectionOpened(s, tok) ==
    /\ phase[s] = "none"
    /\ \A r \in Sockets : r < s => phase[r] # "none"
    /\ IF tok = ""
       THEN /\ readyState' = [readyState EXCEPT ![s] = 2]
            /\ phase' = [phase EXCEPT ![s] = "done"]
            /\ UNCHANGED token
       ELSE /\ readyState' = [readyState EXCEPT ![s] = 1]
            /\ phase' = [phase EXCEPT ![s] = "verifying"]
            /\ token' = [token EXCEPT ![s] = tok]
    /\ UNCHANGED <<adminConnections, connectionsByUserId, listening,
                   subscriptions, sendThrows, received, clock, notified,
                   procedureResult>>
    /\ UNCHANGED <<vars, nheartbeats, pureCall, shutdown>>

\* the registry with one more connection (lines 104-121)
RegisterConnection(reg, connectionId, s, user, t) ==
    [adminConnections |->
        MapSet(reg.adminConnections, connectionId,
               [ws |-> s, userId |-> user.id, role |-> user.role,
                lastHeartbeat |-> t]),
     connectionsByUserId |->
        MapSet(reg.connectionsByUserId, user.id,
               (IF user.id \in DOMAIN reg.connectionsByUserId
                THEN reg.connectionsByUserId[user.id] ELSE {})
               \cup {connectionId})]

\* the two Maps as one value
Registry ==
    [adminConnections |-> adminConnections,
     connectionsByUserId |-> connectionsByUserId]

\* jwtVerify has settled: the handler rejects the socket, or registers the
\* connection, sends the confirmation and attaches the message and close
\* handlers.  A confirmation that throws ends the handler in its catch
\* (ws.close(1011)) before the handlers are attached.  sendOnClosedThrows: on a
\* socket that closed during the verification, ws.send throws or drops the
\* message, depending on the version of ws.
ConnectionVerified(s, sendOnClosedThrows) ==
    /\ phase[s] = "verifying"
    /\ phase' = [phase EXCEPT ![s] = "done"]
    /\ token' = [token EXCEPT ![s] = ""]
    /\ IF Rejected(token[s])
       THEN /\ readyState' = wsClose(readyState, s)
            /\ UNCHANGED <<adminConnections, connectionsByUserId, listening,
                           received>>
       ELSE LET reg == RegisterConnection(Registry, ConnectionId(s), s,
                                          jwtPayload(token[s]), clock)
                throws == \/ s \in sendThrows
                          \/ readyState[s] # 1 /\ sendOnClosedThrows
            IN /\ adminConnections' = reg.adminConnections
               /\ connectionsByUserId' = reg.connectionsByUserId
               /\ received' = [received EXCEPT ![s] =
                      IF SendDelivers(s) THEN Append(@, Established) ELSE @]
               /\ IF throws
                  THEN /\ readyState' = wsClose(readyState, s)
                       /\ UNCHANGED listening
                  ELSE /\ listening' = listening \cup {s}
                       /\ UNCHANGED readyState
    /\ UNCHANGED <<subscriptions, sendThrows, clock, notified, procedureResult>>
    /\ UNCHANGED <<vars, nheartbeats, pureCall, shutdown>>

\* ------------------------------------------------ handleWebSocketClose
\* a close handler that forgets the per-user index
handleWebSocketCloseKeepIndex(reg, connectionId) ==
    [adminConnections |-> MapDelete(reg.adminConnections, connectionId),
     connectionsByUserId |-> reg.connectionsByUserId]

\* the connection leaves the registry and the set of its user, and the set
\* leaves the index when it is empty
handleWebSocketClose(reg, connectionId) ==
    IF connectionId \notin DOMAIN reg.adminConnections
    THEN reg
    ELSE LET userId == reg.adminConnections[connectionId].userId
             index == reg.connectionsByUserId
         IN [adminConnections |-> MapDelete(reg.adminConnections, connectionId),
             connectionsByUserId |->
                IF userId \notin DOMAIN index
                THEN index
                ELSE IF index[userId] \ {connectionId} = {}
                     THEN MapDelete(index, userId)
                     ELSE [index EXCEPT ![userId] = @ \ {connectionId}]]

\* the transport of a socket is gone (the client left, the network failed, or
\* a close the server started has completed): 'close' fires, and the close
\* handler runs if it is attached
SocketClosed(s) ==
    /\ readyState[s] \in {1, 2}
    /\ readyState' = [readyState EXCEPT ![s] = 3]
    /\ sendThrows' = sendThrows \ {s}
    /\ LET reg == IF s \in listening
                  THEN handleWebSocketClose(Registry, ConnectionId(s))
                  ELSE Registry
       IN /\ adminConnections' = reg.adminConnections
          /\ connectionsByUserId' = reg.connectionsByUserId
    /\ UNCHANGED <<phase, token, listening, subscriptions, received, clock,
                   notified, procedureResult>>
    /\ UNCHANGED <<vars, nheartbeats, pureCall, shutdown>>

\* the transport of an open socket fails in a way that makes ws.send throw
\* before 'close' has fired
SendStartsThrowing(s) ==
    /\ readyState[s] = 1
    /\ s \notin sendThrows
    /\ sendThrows' = sendThrows \cup {s}
    /\ UNCHANGED <<adminConnections, connectionsByUserId, readyState, phase,
                   token, listening, subscriptions, received, clock, notified,
                   procedureResult>>
    /\ UNCHANGED <<vars, nheartbeats, pureCall, shutdown>>

\* ---------------------------------------------- handleWebSocketMessage
\* a message of a client whose handlers are attached
handleWebSocketMessage(s, message) ==
    /\ s \in listening
    /\ readyState[s] \in {1, 2}
    /\ IF message.type = "heartbeat"
       THEN nheartbeats < MaxHeartbeats /\ nheartbeats' = nheartbeats + 1
       ELSE UNCHANGED nheartbeats
    /\ LET connectionId == ConnectionId(s)
       IN IF connectionId \notin DOMAIN adminConnections
          THEN UNCHANGED <<adminConnections, subscriptions, received>>
          ELSE CASE message.type = "heartbeat" ->
                      /\ adminConnections' =
                             [adminConnections EXCEPT
                                 ![connectionId].lastHeartbeat = clock]
                      /\ received' = [received EXCEPT ![s] =
                             IF SendDelivers(s) THEN Append(@, HeartbeatAck) ELSE @]
                      /\ UNCHANGED subscriptions
                 [] message.type = "subscribe_to_events" ->
                      /\ subscriptions' = [subscriptions EXCEPT ![s] =
                             [defined |-> TRUE,
                              items |-> @.items \cup {message.eventType}]]
                      /\ UNCHANGED <<adminConnections, received>>
                 [] message.type = "unsubscribe_from_events" ->
                      /\ subscriptions' = [subscriptions EXCEPT ![s] =
                             IF @.defined
                             THEN [@ EXCEPT !.items = @ \ {message.eventType}]
                             ELSE @]
                      /\ UNCHANGED <<adminConnections, received>>
                 [] OTHER ->
                      UNCHANGED <<adminConnections, subscriptions, received>>
    /\ UNCHANGED <<connectionsByUserId, readyState, phase, token, listening,
                   sendThrows, clock, notified, procedureResult>>
    /\ UNCHANGED <<vars, pureCall, shutdown>>

\* ------------------------------------------------------ checkHeartbeats
\* a comparison that counts the threshold itself as stale
IsStaleAtThreshold(connection, t) ==
    t - connection.lastHeartbeat >= staleThreshold

\* timeSinceHeartbeat > staleThreshold
IsStale(connection, t) == t - connection.lastHeartbeat > staleThreshold

RECURSIVE CloseEach(_, _)
\* handleWebSocketClose for each connection of a set
CloseEach(reg, ids) ==
    IF ids = {}
    THEN reg
    ELSE LET c == CHOOSE x \in ids : TRUE
         IN CloseEach(handleWebSocketClose(reg, c), ids \ {c})

\* the sweep of the interval timer: each stale connection is closed and removed
checkHeartbeats ==
    /\ LET stale == {c \in DOMAIN adminConnections :
                        IsStale(adminConnections[c], clock)}
           reg == CloseEach(Registry, stale)
       IN /\ readyState' =
                 [s \in Sockets |->
                     IF \E c \in stale : adminConnections[c].ws = s
                     THEN wsClose(readyState, s)[s] ELSE readyState[s]]
          /\ adminConnections' = reg.adminConnections
          /\ connectionsByUserId' = reg.connectionsByUserId
    /\ UNCHANGED <<phase, token, listening, subscriptions, sendThrows, received,
                   clock, notified, procedureResult>>
    /\ UNCHANGED <<vars, nheartbeats, pureCall, shutdown>>

\* ------------------------------------------------- closeAllConnections
\* a shutdown that forgets the per-user index
ClearedKeepIndex(reg) ==
    [adminConnections |-> EmptyMap,
     connectionsByUserId |-> reg.connectionsByUserId]

\* adminConnections.clear(); connectionsByUserId.clear()
Cleared(reg) ==
    [adminConnections |-> EmptyMap, connectionsByUserId |-> EmptyMap]

\* every registered socket is asked to close (a close that throws is caught)
\* and both Maps are cleared.  The server goes on listening: the function
\* neither closes wss nor stops the handlers that are in flight.  It runs
\* once in a behaviour.
closeAllConnections ==
    /\ ~shutdown.done
    /\ LET sockets == {adminConnections[c].ws : c \in DOMAIN adminConnections}
       IN /\ readyState' =
                 [s \in Sockets |->
                     IF s \in sockets THEN wsClose(readyState, s)[s]
                     ELSE readyState[s]]
          /\ shutdown' = [done |-> TRUE,
                          inFlight |-> {s \in Sockets : phase[s] = "verifying"}]
    /\ adminConnections' = Cleared(Registry).adminConnections
    /\ connectionsByUserId' = Cleared(Registry).connectionsByUserId
    /\ UNCHANGED <<phase, token, listening, subscriptions, sendThrows, received,
                   clock, notified, procedureResult>>
    /\ UNCHANGED <<vars, nheartbeats, pureCall>>

\* the notifier's clock advances
TickClock ==
    /\ clock < MaxTicks * ClockStep
    /\ clock' = clock + ClockStep
    /\ UNCHANGED <<adminConnections, connectionsByUserId, readyState, phase,
                   token, listening, subscriptions, sendThrows, received,
                   notified, procedureResult>>
    /\ UNCHANGED <<vars, nheartbeats, pureCall, shutdown>>

\* ------------------------------------------------ broadcastNotification
\* a filter that lets every event through
MatchesAny(subs, type) == TRUE

\* `subscriptions && !subscriptions.has(event.type)` skips the connection
Matches(subs, type) == ~(subs.defined /\ type \notin subs.items)

\* a loop that sends to every matching connection, whatever its readyState
BroadcastTargetsAnyState(type) ==
    {c \in DOMAIN adminConnections :
        Matches(subscriptions[adminConnections[c].ws], type)}

\* the connections the loop calls ws.send for
BroadcastTargets(type) ==
    {c \in DOMAIN adminConnections :
        /\ Matches(subscriptions[adminConnections[c].ws], type)
        /\ readyState[adminConnections[c].ws] = 1}

\* a loop without the try/catch around the send: a send that throws ends it
DeliveredUntilThrow(targets) ==
    IF \E c \in targets : adminConnections[c].ws \in sendThrows
    THEN {}
    ELSE targets

\* the connections whose send went through; one that throws is caught and
\* the loop goes on
Delivered(targets) ==
    {c \in targets : adminConnections[c].ws \notin sendThrows}

\* received after ws.send(JSON.stringify(notification)) to a set of connections
SendTo(ids, type) ==
    [s \in Sockets |->
        IF \E c \in ids : adminConnections[c].ws = s
        THEN Append(received[s], Notification(type, nnotified + 1))
        ELSE received[s]]

\* broadcastNotification(event): it returns, whatever the sends did
broadcastNotification(type) ==
    /\ notified' = Append(notified, type)
    /\ received' = SendTo(Delivered(BroadcastTargets(type)), type)

\* notifyAdmin(userId, event): every open connection of one user, whatever
\* its subscriptions
notifyAdmin(userId, type) ==
    /\ nnotified < MaxEvents
    /\ notified' = Append(notified, type)
    /\ LET userConnections == IF userId \in DOMAIN connectionsByUserId
                              THEN connectionsByUserId[userId] ELSE {}
           targets == {c \in userConnections \cap DOMAIN adminConnections :
                          readyState[adminConnections[c].ws] = 1}
       IN received' = SendTo(Delivered(targets), type)
    /\ UNCHANGED <<adminConnections, connectionsByUserId, readyState, phase,
                   token, listening, subscriptions, sendThrows, clock,
                   procedureResult>>
    /\ UNCHANGED <<vars, nheartbeats, pureCall, shutdown>>

\* notifySignatureRejected(...), called directly
notifySignatureRejected ==
    /\ nnotified < MaxEvents
    /\ broadcastNotification("signature_rejected")
    /\ UNCHANGED <<adminConnections, connectionsByUserId, readyState, phase,
                   token, listening, subscriptions, sendThrows, clock,
                   procedureResult>>
    /\ UNCHANGED <<vars, nheartbeats, pureCall, shutdown>>

\* ---------------------------------------------- efirmas-router procedures
\* a procedure that notifies before it calls the signing authority
requestSignatureNotifyFirst(authority) ==
    /\ nnotified < MaxEvents
    /\ broadcastNotification("signature_sent")
    /\ procedureResult' =
           [op |-> "requestSignature",
            result |-> IF authority = "ok" THEN "success" ELSE "error"]
    /\ UNCHANGED <<adminConnections, connectionsByUserId, readyState, phase,
                   token, listening, subscriptions, sendThrows, clock>>
    /\ UNCHANGED <<vars, nheartbeats, pureCall, shutdown>>

\* requestSignature: the signing authority is called first; when it throws
\* the procedure throws and nothing is notified.  Otherwise
\* notifySignatureSent runs inside a try/catch and the procedure returns
\* success.
requestSignature(authority) ==
    /\ nnotified < MaxEvents
    /\ IF authority = "ok"
       THEN /\ broadcastNotification("signature_sent")
            /\ procedureResult' = [op |-> "requestSignature", result |-> "success"]
       ELSE /\ UNCHANGED <<received, notified>>
            /\ procedureResult' = [op |-> "requestSignature", result |-> "error"]
    /\ UNCHANGED <<adminConnections, connectionsByUserId, readyState, phase,
                   token, listening, subscriptions, sendThrows, clock>>
    /\ UNCHANGED <<vars, nheartbeats, pureCall, shutdown>>

\* validateSignature: likewise, with notifySignatureCompleted for a valid
\* signature (the authority's answer is always isValid: true)
validateSignature(authority) ==
    /\ nnotified < MaxEvents
    /\ IF authority = "ok"
       THEN /\ broadcastNotification("signature_completed")
            /\ procedureResult' = [op |-> "validateSignature", result |-> "success"]
       ELSE /\ UNCHANGED <<received, notified>>
            /\ procedureResult' = [op |-> "validateSignature", result |-> "error"]
    /\ UNCHANGED <<adminConnections, connectionsByUserId, readyState, phase,
                   token, listening, subscriptions, sendThrows, clock>>
    /\ UNCHANGED <<vars, nheartbeats, pureCall, shutdown>>

NextNotifier ==
    \/ \E s \in Sockets, tok \in TokenInputs : ConnectionOpened(s, tok)
    \/ \E s \in Sockets, b \in BOOLEAN : ConnectionVerified(s, b)
    \/ \E s \in Sockets : SocketClosed(s)
    \/ \E s \in Sockets : SendStartsThrowing(s)
    \/ \E s \in Sockets, m \in MessageInputs : handleWebSocketMessage(s, m)
    \/ checkHeartbeats
    \/ TickClock
    \/ \E u \in AdminIdInputs : notifyAdmin(u, "audit_alert")
    \/ notifySignatureRejected
    \/ \E a \in AuthorityInputs : requestSignature(a)
    \/ \E a \in AuthorityInputs : validateSignature(a)

SpecNotifier == Init /\ [][NextNotifier]_allvars

\* the life of the connections up to and after a shutdown: connect, message,
\* close, sweep, closeAllConnections
NextShutdown ==
    \/ \E s \in Sockets, tok \in TokenInputs : ConnectionOpened(s, tok)
    \/ \E s \in Sockets, b \in BOOLEAN : ConnectionVerified(s, b)
    \/ \E s \in Sockets : SocketClosed(s)
    \/ \E s \in Sockets : SendStartsThrowing(s)
    \/ \E s \in Sockets, m \in MessageInputs : handleWebSocketMessage(s, m)
    \/ checkHeartbeats
    \/ TickClock
    \/ closeAllConnections

SpecShutdown == Init /\ [][NextShutdown]_allvars

\* ======================================================================
\* Functions of their arguments alone
\* ======================================================================

\* --------------------------------------------------- exportAuditTrailToCSV
\* the text of a number (a template literal) and of a date (toISOString)
NumberText(n) == <<ToString(n)>>
toISOString(t) == <<"T" \o ToString(t)>>

\* x || "" for a text
OrEmpty(found, text) == IF found THEN text ELSE <<>>

RECURSIVE Join(_, _)
\* Array.prototype.join
Join(texts, separator) ==
    IF Len(texts) = 0 THEN <<>>
    ELSE IF Len(texts) = 1 THEN texts[1]
    ELSE texts[1] \o separator \o Join(Tail(texts), separator)

\* csvHeader
csvHeader ==
    <<"Request ID", Comma, "Signer Email", Comma, "Status", Comma,
      "Created At", Comma, "Signed At", Comma, "Event Type", Comma,
      "Actor Email", Comma, "Event Created At", Newline>>

\* the cells of the row of one event, before they are quoted; the request is
\* the first selected one with the event's signatureRequestId, if any
CsvCells(requestRows, event) ==
    LET found == {i \in 1..Len(requestRows) :
                     requestRows[i].id = event.signatureRequestId}
        has == found # {}
        request == requestRows[CHOOSE i \in found : \A j \in found : i <= j]
    IN <<NumberText(event.signatureRequestId),
         OrEmpty(has, request.signerEmail),
         OrEmpty(has, <<request.status>>),
         OrEmpty(has, toISOString(request.createdAt)),
         OrEmpty(has /\ request.signedDate # Null, toISOString(request.signedDate)),
         <<event.eventType>>,
         event.actorEmail,
         toISOString(event.createdAt)>>

\* `"${cell}"`
QuoteCell(cell) == <<Quote>> \o cell \o <<Quote>>

\* the rows the two selects of the export return
ExportRequests(reqs, startDate, endDate) ==
    SelectSeq(reqs, LAMBDA r : InWindow(r, startDate, endDate))

ExportEvents(evs, startDate, endDate) ==
    SelectSeq(evs, LAMBDA e : InWindow(e, startDate, endDate))

\* csvHeader + csvRows
exportAuditTrailToCSV(reqs, evs, startDate, endDate) ==
    LET requestRows == ExportRequests(reqs, startDate, endDate)
        eventRows == ExportEvents(evs, startDate, endDate)
        csvRows ==
            Join([k \in 1..Len(eventRows) |->
                     Join([c \in 1..8 |->
                              QuoteCell(CsvCells(requestRows, eventRows[k])[c])],
                          <<Comma>>)],
                 <<Newline>>)
    IN csvHeader \o csvRows

\* the export over the tables and the window of the arguments
ExportCall ==
    /\ pureCall.fn = "exportAuditTrailToCSV"
    /\ ~pureCall.called
    /\ pureCall' = [pureCall EXCEPT
           !.called = TRUE,
           !.ret = exportAuditTrailToCSV(pureCall.args[1], pureCall.args[2],
                                         pureCall.args[3], pureCall.args[4])]
    /\ UNCHANGED <<vars, notifier>>

\* ------------------------------------------------ verifySignatureIntegrity
\* a check that also wants a signature hash
verifySignatureIntegritySigned(originalDocumentHash, currentDocumentHash, signatureHash) ==
    originalDocumentHash = currentDocumentHash /\ signatureHash # ""

\* expectedSignatureHash is computed and not used; the result is the
\* comparison of the two document hashes
verifySignatureIntegrity(originalDocumentHash, currentDocumentHash, signatureHash) ==
    IF originalDocumentHash # currentDocumentHash THEN FALSE ELSE TRUE

\* the check of the hashes of the arguments
IntegrityCall ==
    /\ pureCall.fn = "verifySignatureIntegrity"
    /\ ~pureCall.called
    /\ pureCall' = [pureCall EXCEPT
           !.called = TRUE,
           !.ret = verifySignatureIntegrity(pureCall.args[1], pureCall.args[2],
                                            pureCall.args[3])]
    /\ UNCHANGED <<vars, notifier>>

NextPure ==
    \/ ExportCall
    \/ IntegrityCall

SpecPure == InitPure /\ [][NextPure]_allvars

\* ======================================================================
\* Properties
\* ======================================================================

\* the transition relation of the signature request state machine
AllowedEdges ==
    {<<"pending", "sent">>, <<"sent", "viewed">>, <<"viewed", "signed">>}
    \cup ({"pending", "sent", "viewed"} \X {"rejected", "expired", "cancelled"})

TerminalStatuses == {"signed", "rejected", "expired", "cancelled"}

\* the event type that corresponds to a transition to status s
EventOfTransition(s) ==
    CASE s = "sent" -> "request_sent"
      [] s = "viewed" -> "document_viewed"
      [] s = "signed" -> "signature_completed"
      [] s = "rejected" -> "signature_rejected"
      [] s = "expired" -> "signature_expired"
      [] s = "cancelled" -> "signature_cancelled"
      [] OTHER -> "none"

TransitionEventTypes ==
    {"request_sent", "document_viewed", "signature_completed",
     "signature_rejected", "signature_expired", "signature_cancelled"}

\* the status a transition event names
StatusOfEvent(t) == CHOOSE s \in Statuses \ {"pending"} : EventOfTransition(s) = t

\* the status the trail of request r stands at: the one its last transition
\* event names, pending when it has none
TrailStatus(r) ==
    LET T == {i \in TrailIdx(events, r) :
                 events[i].eventType \in TransitionEventTypes}
    IN IF T = {} THEN "pending"
       ELSE StatusOfEvent(events[CHOOSE i \in T : \A j \in T : j <= i].eventType)

AllIdle == \A p \in Procs : pc[p] = "idle"

\* the rows of one request in the order they were appended
AppendOrder(evs, id) == SelectSeq(evs, LAMBDA e : e.signatureRequestId = id)

\* C1: every change of a request's stored status follows an allowed edge
C1_OnlyAllowedEdges ==
    [][\A r \in 1..Len(requests) :
          requests'[r].status # requests[r].status
              => <<requests[r].status, requests'[r].status>> \in AllowedEdges]_vars

\* C2: an update attempt whose (stored status, target) pair is no allowed edge
\* writes nothing (the status and the trail stay as they are) and ends in an error
C2_InvalidAttemptRejected ==
    [][\A p \in Procs :
          /\ (pc[p] = "idle" /\ pc'[p] = "upd_log"
                /\ call'[p].from # ""
                /\ <<call'[p].from, call'[p].status>> \notin AllowedEdges)
             => requests' = requests
          /\ (pc[p] = "upd_log" /\ pc'[p] = "idle"
                /\ call[p].from # ""
                /\ <<call[p].from, call[p].status>> \notin AllowedEdges)
             => (events' = events /\ result'[p] = "error")]_vars

\* C3: a request in a terminal status keeps that status
C3_TerminalAbsorbing ==
    [][\A r \in 1..Len(requests) :
          requests[r].status \in TerminalStatuses
              => requests'[r].status = requests[r].status]_vars

\* C4: a call that wrote a status along an allowed edge appends, at its audit
\* step, exactly one event, of the type that corresponds to the transition
C4_OneEventPerTransition ==
    [][\A p \in Procs :
          (pc[p] \in {"upd_log", "rec_log"} /\ pc'[p] # pc[p]
             /\ <<call[p].from, call[p].status>> \in AllowedEdges)
          => /\ Len(events') = Len(events) + 1
             /\ events'[Len(events')].signatureRequestId = call[p].id
             /\ events'[Len(events')].eventType
                    = EventOfTransition(call[p].status)]_vars

\* C5: when no call is in flight, each request's stored status is the one its
\* audit trail stands at (no status change without its event, no transition
\* event without its status change)
C5_StatusMatchesTrail ==
    AllIdle => \A r \in 1..Len(requests) : requests[r].status = TrailStatus(r)

\* C6: overlapping transition calls on one request behave as if run one after
\* the other: when a call that wrote a stored request's status returns
\* normally, no call is in flight any more and the other caller's call returned
\* normally too, the stored status is the target of the call that returned
\* last, the status its event (the last of the trail) names
C6_ConcurrentCallsSerialize ==
    [][\A p \in Procs :
          (/\ pc[p] \in {"upd_log", "rec_verify"}
           /\ pc'[p] = "idle"
           /\ result'[p] = "ok"
           /\ call[p].from # ""
           /\ \A q \in Procs : pc'[q] = "idle" /\ result'[q] = "ok")
          => requests'[call[p].id].status = call[p].status]_vars

\* C7: the audit log is append-only: every stored event stays stored, at its
\* place and with the same fields, across every step
C7_AppendOnly ==
    [][/\ Len(events') >= Len(events)
       /\ \A i \in 1..Len(events) : events'[i] = events[i]]_vars

\* two events are stored and the later one was appended by a finished call
C7_Witness ==
    /\ Len(events) >= 2
    /\ AllIdle
    /\ \E p \in Procs : result[p] = "ok"

C9_TrailInAppendOrder ==
    \A id \in IdInputs : \A rows \in getSignatureAuditTrail(events, id) :
        rows = AppendOrder(events, id)

\* C10: in every compliance record the overall verdict is 1 exactly when the
\* four partial verdicts are all 1
C10_OverallIsConjunction ==
    \A i \in 1..Len(complianceRecords) :
        LET c == complianceRecords[i]
        IN (c.ley81Compliant = 1) <=>
              (/\ c.nonRepudiationVerified = 1
               /\ c.certificateValid = 1
               /\ c.timestampValid = 1
               /\ c.documentIntegrityVerified = 1)

\* the five verdicts of a compliance record (ley81Compliant is the overall one)
FiveVerdicts(c) ==
    <<c.ley81Compliant, c.nonRepudiationVerified, c.certificateValid,
      c.timestampValid, c.documentIntegrityVerified>>

\* two records of one request whose calls read the same request row and the
\* same certificate row (nothing changed between the two calls)
SameReads(c, d) ==
    /\ c.signatureRequestId = d.signatureRequestId
    /\ c.sigReq = d.sigReq
    /\ c.certificate = d.certificate

\* C11: in every compliance record, certificateValid is 1 exactly when the
\* certificate read had status valid and the clock of the verification had not
\* passed its validTo
C11_CertificateValidChecksExpiry ==
    \A i \in 1..Len(complianceRecords) :
        LET c == complianceRecords[i]
        IN (c.certificateValid = 1) <=>
              (c.certificate.status = "valid" /\ c.createdAt <= c.certificate.validTo)

\* C12: two verifications of one request that read the same request row and
\* the same certificate row write two distinct records with the same five
\* verdicts
C12_SameStateSameVerdicts ==
    \A i, j \in 1..Len(complianceRecords) :
        (i < j /\ SameReads(complianceRecords[i], complianceRecords[j]))
        => /\ complianceRecords[i].id # complianceRecords[j].id
           /\ FiveVerdicts(complianceRecords[i]) = FiveVerdicts(complianceRecords[j])

\* was the clock of record c before the validTo of the certificate it read?
BeforeValidTo(c) == c.certificate.validTo > c.createdAt

\* C12 (amended): two such verifications write two distinct records with the
\* same five verdicts when the clock did not reach the certificate's validTo
\* between them; the four partial verdicts are the same in every case
C12_SameStateSameVerdictsUnlessExpired ==
    \A i, j \in 1..Len(complianceRecords) :
        LET c == complianceRecords[i]
            d == complianceRecords[j]
        IN (i < j /\ SameReads(c, d))
           => /\ c.id # d.id
              /\ Tail(FiveVerdicts(c)) = Tail(FiveVerdicts(d))
              /\ (BeforeValidTo(c) <=> BeforeValidTo(d))
                    => FiveVerdicts(c) = FiveVerdicts(d)

\* two records of a signed request, both written before validTo, from equal reads
C12_Witness ==
    /\ Len(complianceRecords) = 2
    /\ SameReads(complianceRecords[1], complianceRecords[2])
    /\ complianceRecords[1].sigReq.signedDate # Null
    /\ BeforeValidTo(complianceRecords[1])
    /\ BeforeValidTo(complianceRecords[2])
    /\ complianceRecords[1].ley81Compliant = 1

\* C13: a verification that reads a revoked certificate appends a record with
\* certificateValid = 0 and the overall verdict 0, and leaves every earlier
\* record as it was written
C13_RevocationRegresses ==
    [][Len(complianceRecords') > Len(complianceRecords)
       => LET c == complianceRecords'[Len(complianceRecords')]
          IN /\ Len(complianceRecords') = Len(complianceRecords) + 1
             /\ \A i \in 1..Len(complianceRecords) :
                    complianceRecords'[i] = complianceRecords[i]
             /\ c.certificate.status = "revoked"
                    => (c.certificateValid = 0 /\ c.ley81Compliant = 0)]_vars

\* a record with the overall verdict 1, then the certificate revoked, then a
\* second record of the same, unchanged request
C13_Witness ==
    /\ Len(complianceRecords) = 2
    /\ complianceRecords[1].ley81Compliant = 1
    /\ complianceRecords[1].certificate.status = "valid"
    /\ complianceRecords[2].certificate.status = "revoked"
    /\ complianceRecords[2].signatureRequestId = complianceRecords[1].signatureRequestId
    /\ complianceRecords[2].sigReq = complianceRecords[1].sigReq
    /\ complianceRecords[2].certificateValid = 0
    /\ complianceRecords[2].ley81Compliant = 0

\* C14: a transition call writes a compliance record exactly when it is a
\* successful viewed -> signed transition: the last step of a completion that
\* replaced viewed and returns normally appends a record of its request, and
\* no step of a transition call that replaced another status appends one
C14_VerifierOnlyOnViewedToSigned ==
    [][\A p \in Procs :
          /\ (pc[p] = "rec_verify" /\ pc'[p] = "idle" /\ result'[p] = "ok"
                /\ call[p].from = "viewed")
             => /\ Len(complianceRecords') = Len(complianceRecords) + 1
                /\ complianceRecords'[Len(complianceRecords')].signatureRequestId
                       = call[p].id
          /\ (pc[p] \in {"upd_log", "rec_log", "rec_verify"} /\ pc'[p] # pc[p]
                /\ Len(complianceRecords') > Len(complianceRecords))
             => call[p].from = "viewed"]_vars

\* ----------------------------------------------- notifier properties
\* the types of the events that are broadcast (notifyAdmin sends audit_alert)
BroadcastTypes == {"signature_rejected", "signature_sent", "signature_completed"}

\* the step is a broadcast of an event of type t
BroadcastOf(t) ==
    \/ t = "signature_rejected" /\ notifySignatureRejected
    \/ t = "signature_sent" /\ requestSignature("ok")
    \/ t = "signature_completed" /\ validateSignature("ok")

Registered(s) == ConnectionId(s) \in DOMAIN adminConnections

\* socket s has received the notification event numbered n
GotEvent(s, n) == \E i \in 1..Len(received[s]) : received[s][i].n = n

\* the step delivers exactly message m to socket s
Receives(s, m) == received'[s] = Append(received[s], m)

\* C15: a message of a broadcast type reaches a connection with a non-empty
\* subscription set only if the set holds its type (a connection subscribed to
\* signature_completed alone gets no signature_rejected)
C15_SubscribedOnlyGetsItsTypes ==
    [][\A s \in Sockets :
          (/\ received'[s] # received[s]
           /\ received'[s][Len(received'[s])].type \in BroadcastTypes
           /\ subscriptions[s].defined
           /\ subscriptions[s].items # {})
          => received'[s][Len(received'[s])].type \in subscriptions[s].items]_allvars

\* signature_rejected was broadcast: an open connection subscribed to
\* signature_completed alone has nothing of it, one that never subscribed has it
C15_Witness ==
    /\ nnotified = 1
    /\ \E s, r \in Sockets :
          /\ Registered(s) /\ readyState[s] = 1 /\ s \notin sendThrows
          /\ subscriptions[s].items = {"signature_completed"}
          /\ ~GotEvent(s, 1)
          /\ Registered(r)
          /\ ~subscriptions[r].defined
          /\ \E i \in 1..Len(received[r]) :
                received[r][i] = Notification("signature_rejected", 1)

\* C16: a registered connection with an open transport and no subscription
\* (it never subscribed, or it unsubscribed from all it had subscribed to)
\* receives every broadcast event
C16_EmptySubscriptionGetsAll ==
    [][\A t \in BroadcastTypes : \A s \in Sockets :
          (/\ BroadcastOf(t)
           /\ Registered(s)
           /\ readyState[s] = 1
           /\ s \notin sendThrows
           /\ subscriptions[s].items = {})
          => Receives(s, Notification(t, nnotified + 1))]_allvars

\* C17: the sweep closes every connection whose heartbeat is older than 90 s
\* and removes it from the registry and the per-user index; a socket whose
\* handler is done and that is not in the registry receives nothing
C17_StaleSweptAndSilent ==
    [][/\ checkHeartbeats
          => \A c \in DOMAIN adminConnections :
                clock - adminConnections[c].lastHeartbeat > 90000
                => /\ c \notin DOMAIN adminConnections'
                   /\ \A u \in DOMAIN connectionsByUserId' :
                          c \notin connectionsByUserId'[u]
                   /\ readyState'[adminConnections[c].ws] \in {2, 3}
       /\ \A s \in Sockets :
             (phase[s] = "done" /\ ~Registered(s))
             => received'[s] = received[s]]_allvars

\* a connection with its handlers attached was closed by the sweep (its close
\* has not completed) and is gone from both Maps; an event sent to the others
\* did not reach it
C17_Witness ==
    /\ nnotified = 1
    /\ \E s, r \in Sockets :
          /\ s \in listening /\ readyState[s] = 2 /\ ~Registered(s)
          /\ \A u \in DOMAIN connectionsByUserId :
                ConnectionId(s) \notin connectionsByUserId[u]
          /\ ~GotEvent(s, 1)
          /\ Registered(r) /\ GotEvent(r, 1)

\* the tokens of an admin that jwtVerify accepts
AdminTokens == {"admin1"}

\* C18: every registered connection has role admin and entered the registry
\* in the step in which the handler, its token verified and of role admin,
\* registered it; a handler step of a socket with any other credential leaves
\* the registry and the per-user index as they are
C18_OnlyVerifiedAdminsRegistered ==
    /\ [](\A c \in DOMAIN adminConnections : adminConnections[c].role = "admin")
    /\ [][\A s \in Sockets :
             /\ (ConnectionId(s) \in DOMAIN adminConnections'
                    /\ ConnectionId(s) \notin DOMAIN adminConnections)
                => (phase[s] = "verifying" /\ token[s] \in AdminTokens)
             /\ (phase'[s] # phase[s]
                    /\ ~(phase[s] = "verifying" /\ token[s] \in AdminTokens))
                => (/\ adminConnections' = adminConnections
                    /\ connectionsByUserId' = connectionsByUserId)]_allvars

\* one socket was turned away (its handler is done, it is in no Map, and no
\* sweep can have removed it) while another one is registered
C18_Witness ==
    /\ clock = 0
    /\ \E s, r \in Sockets :
          /\ phase[s] = "done" /\ ~Registered(s) /\ s \notin listening
          /\ readyState[s] = 3
          /\ Registered(r)
          /\ connectionsByUserId[adminConnections[ConnectionId(r)].userId]
                = {ConnectionId(r)}

\* C19: no socket holds an event twice, and an event reaches a socket only in
\* the step of its broadcast and only if the socket is open in that step
\* (nothing is delivered later)
C19_AtMostOnceNoRetry ==
    /\ [](\A s \in Sockets : \A n \in 1..nnotified :
             Cardinality({i \in 1..Len(received[s]) : received[s][i].n = n}) <= 1)
    /\ [][\A s \in Sockets :
             received'[s] # received[s]
             => /\ Receives(s, received'[s][Len(received'[s])])
                /\ received'[s][Len(received'[s])].n # 0
                   => /\ nnotified' = nnotified + 1
                      /\ received'[s][Len(received'[s])].n = nnotified'
                      /\ readyState[s] = 1]_allvars

\* an event was broadcast while a registered connection was not open: it has
\* nothing of it, and an open one has it
C19_Witness ==
    /\ nnotified = 1
    /\ \E s, r \in Sockets :
          /\ Registered(s) /\ readyState[s] # 1 /\ ~GotEvent(s, 1)
          /\ ~subscriptions[s].defined
          /\ Registered(r) /\ readyState[r] = 1 /\ GotEvent(r, 1)
          /\ received[r][Len(received[r])].type \in BroadcastTypes

\* is connection c one the filter lets an event of type t through to?
PassesFilter(c, t) ==
    LET subs == subscriptions[adminConnections[c].ws]
    IN ~subs.defined \/ t \in subs.items

NotificationOfTransition(s) ==
    CASE s = "sent" -> "signature_sent"
      [] s = "viewed" -> "signature_viewed"
      [] s = "signed" -> "signature_completed"
      [] s = "rejected" -> "signature_rejected"
      [] s = "expired" -> "signature_expired"
      [] OTHER -> "none"

\* C21: a transition call that wrote a status along an allowed edge and
\* returns normally hands one notification event of the corresponding type
\* to the notifier
C21_TransitionNotifies ==
    [][\A p \in Procs :
          (/\ pc[p] \in {"upd_log", "rec_verify"}
           /\ pc'[p] = "idle"
           /\ result'[p] = "ok"
           /\ <<call[p].from, call[p].status>> \in AllowedEdges
           /\ NotificationOfTransition(call[p].status) # "none")
          => notified' = Append(notified,
                                NotificationOfTransition(call[p].status))]_allvars

\* C23: for every window, the compliancePercentage of the report is within
\* 0..100, and it is 0 when totalRequests is 0
C23_PercentageInRange ==
    \A w \in WindowInputs :
        LET report == generateComplianceReport(requests, complianceRecords,
                                               w[1], w[2])
        IN /\ report.compliancePercentage >= 0
           /\ report.compliancePercentage <= 100
           /\ report.totalRequests = 0 => report.compliancePercentage = 0

\* C26: a signed request has a signedDate, a rejected request has a
\* rejectionReason, and a signedDate is stored only together with the status
\* signed
C26_DatesAndReasonsPopulated ==
    /\ [](\A r \in 1..Len(requests) :
             /\ requests[r].status = "signed" => requests[r].signedDate # Null
             /\ requests[r].status = "rejected"
                   => requests[r].rejectionReason # Null)
    /\ [][\A r \in 1..Len(requests) :
             (requests[r].signedDate = Null /\ requests'[r].signedDate # Null)
             => requests'[r].status = "signed"]_allvars

\* C28: no step changes the documentHash of a stored request
C28_DocumentHashImmutable ==
    [][\A r \in 1..Len(requests) :
          requests'[r].documentHash = requests[r].documentHash]_allvars

\* a request created with a hash was completed and verified, and a report
\* over every window was computed from the tables: the hash is the stored one
C28_Witness ==
    /\ Len(requests) = 1
    /\ requests[1].documentHash = "h1"
    /\ requests[1].status = "signed"
    /\ requests[1].signedDate # Null
    /\ Len(complianceRecords) >= 1
    /\ complianceRecords[1].sigReq.documentHash = "h1"
    /\ AllIdle

\* C25: a requestSignature procedure whose signing-authority call fails ends
\* in an error and writes nothing: the tables, the notifier's input history
\* and every socket's messages are as before
C25_AuthorityFailureWritesNothing ==
    [][requestSignature("throws")
          => /\ procedureResult' = [op |-> "requestSignature", result |-> "error"]
             /\ tables' = tables
             /\ notified' = notified
             /\ received' = received]_allvars

\* the procedure failed while an open admin connection was registered: the
\* connection has its confirmation and nothing else, no event was handed over
C25_Witness ==
    /\ procedureResult = [op |-> "requestSignature", result |-> "error"]
    /\ nnotified = 0
    /\ \E s \in Sockets :
          /\ Registered(s) /\ readyState[s] = 1 /\ s \notin sendThrows
          /\ received[s] = <<Established>>

\* C29: a heartbeat of a registered connection sets its lastHeartbeat to the
\* current time, and the sweep leaves every connection whose heartbeat is no
\* older than 90 s registered, open and as it was
C29_HeartbeatKeepsAlive ==
    [][/\ \A s \in Sockets :
             (handleWebSocketMessage(s, [type |-> "heartbeat", eventType |-> ""])
                /\ Registered(s))
             => /\ ConnectionId(s) \in DOMAIN adminConnections'
                /\ adminConnections'[ConnectionId(s)].lastHeartbeat = clock
       /\ checkHeartbeats
             => \A c \in DOMAIN adminConnections :
                   clock - adminConnections[c].lastHeartbeat <= 90000
                   => /\ c \in DOMAIN adminConnections'
                      /\ adminConnections'[c] = adminConnections[c]
                      /\ \E u \in DOMAIN connectionsByUserId' :
                            c \in connectionsByUserId'[u]
                      /\ readyState'[adminConnections[c].ws]
                            = readyState[adminConnections[c].ws]]_allvars

\* two sweeps' worth of time have passed; the connection that sent a heartbeat
\* one threshold ago is registered and open, the one that sent none was swept
C29_Witness ==
    /\ clock = 2 * staleThreshold
    /\ \E s, r \in Sockets :
          /\ Registered(s) /\ readyState[s] = 1
          /\ adminConnections[ConnectionId(s)].lastHeartbeat = staleThreshold
          /\ r \in listening /\ readyState[r] = 2 /\ ~Registered(r)

\* --- a CSV reader (RFC 4180).  A field in quotes ends at a quote that is
\* not doubled and a doubled quote inside it is one quote; outside quotes a
\* comma ends the field and a line break ends the record.  A comma or line
\* break is outside quotes exactly when an even number of quotes precedes it.
QuotesBefore(text, i) == Cardinality({j \in 1..(i - 1) : text[j] = Quote})

\* the positions in from..to of a separator that is outside quotes
Separators(text, separator, from, to) ==
    {i \in from..to : text[i] = separator /\ QuotesBefore(text, i) % 2 = 0}

\* the k-th smallest member of a set of positions
Nth(positions, k) ==
    CHOOSE p \in positions : Cardinality({q \in positions : q <= p}) = k

\* the pieces <<first, last>> of from..to between the positions of a set
Pieces(positions, from, to) ==
    [k \in 1..(Cardinality(positions) + 1) |->
        <<IF k = 1 THEN from ELSE Nth(positions, k - 1) + 1,
          IF k = Cardinality(positions) + 1 THEN to
          ELSE Nth(positions, k) - 1>>]

RECURSIVE Undoubled(_)
\* the inside of a quoted field with each doubled quote made one; a quote
\* that is not doubled makes it no field
Undoubled(text) ==
    IF text = <<>> THEN [ok |-> TRUE, text |-> <<>>]
    ELSE IF Head(text) # Quote
    THEN LET rest == Undoubled(Tail(text))
         IN [ok |-> rest.ok, text |-> <<Head(text)>> \o rest.text]
    ELSE IF Len(text) >= 2 /\ text[2] = Quote
    THEN LET rest == Undoubled(Tail(Tail(text)))
         IN [ok |-> rest.ok, text |-> <<Quote>> \o rest.text]
    ELSE [ok |-> FALSE, text |-> <<>>]

\* the value of one field
ParseField(field) ==
    IF \A i \in 1..Len(field) : field[i] # Quote
    THEN [ok |-> TRUE, text |-> field]
    ELSE IF Len(field) >= 2 /\ field[1] = Quote /\ field[Len(field)] = Quote
    THEN Undoubled(SubSeq(field, 2, Len(field) - 1))
    ELSE [ok |-> FALSE, text |-> <<>>]

\* the records of a text, each a sequence of field values
ParseCsv(text) ==
    LET all == Pieces(Separators(text, Newline, 1, Len(text)), 1, Len(text))
        \* a line break at the end of the text ends the last record
        lines == IF all[Len(all)][1] > all[Len(all)][2]
                 THEN SubSeq(all, 1, Len(all) - 1) ELSE all
        fields(k) ==
            LET ranges == Pieces(Separators(text, Comma, lines[k][1], lines[k][2]),
                                 lines[k][1], lines[k][2])
            IN [c \in 1..Len(ranges) |->
                   ParseField(SubSeq(text, ranges[c][1], ranges[c][2]))]
    IN [ok |-> /\ QuotesBefore(text, Len(text) + 1) % 2 = 0
               /\ \A k \in 1..Len(lines) :
                     \A c \in 1..Len(fields(k)) : fields(k)[c].ok,
        rows |-> [k \in 1..Len(lines) |->
                     [c \in 1..Len(fields(k)) |-> fields(k)[c].text]]]

\* C24: the text of an export parses as CSV into the header and one record
\* per event of the window, and each field of a record is the text of its
\* cell, a double quote in it included
C24_CsvRoundTrips ==
    (pureCall.fn = "exportAuditTrailToCSV" /\ pureCall.called)
    => LET requestRows == ExportRequests(pureCall.args[1], pureCall.args[3],
                                         pureCall.args[4])
           eventRows == ExportEvents(pureCall.args[2], pureCall.args[3],
                                     pureCall.args[4])
           parsed == ParseCsv(pureCall.ret)
       IN /\ parsed.ok
          /\ Len(parsed.rows) = 1 + Len(eventRows)
          /\ \A k \in 1..Len(eventRows) :
                parsed.rows[k + 1] = CsvCells(requestRows, eventRows[k])

\* C30: verifySignatureIntegrity returns false when the current document hash
\* differs from the original one and true when they are equal, whatever the
\* signature hash
C30_TamperDetected ==
    (pureCall.fn = "verifySignatureIntegrity" /\ pureCall.called)
    => pureCall.ret = (pureCall.args[1] = pureCall.args[2])

\* a check of two different document hashes returned false
C30_Witness ==
    /\ pureCall.fn = "verifySignatureIntegrity"
    /\ pureCall.called
    /\ pureCall.args[1] = "h1"
    /\ pureCall.args[2] = "h2"
    /\ pureCall.args[3] = "h1"
    /\ pureCall.ret = FALSE

\* the step is one of caller p's call on request r
StepOn(p, r) ==
    \/ pc[p] # "idle" /\ pc'[p] # pc[p] /\ call[p].id = r
    \/ pc[p] = "idle" /\ pc'[p] # "idle" /\ call'[p].id = r

\* C22: the transition of the sweep leaves a request that is terminal by then
\* as it is and sets any other to expired, and its audit step appends one
\* signature_expired event of the request with no actor
C22_SweepExpiresNonTerminalOnly ==
    [][\A p \in Procs :
          /\ (pc[p] = "swp_update" /\ pc'[p] # pc[p])
             => IF requests[call[p].id].status \in TerminalStatuses
                THEN requests' = requests
                ELSE requests'[call[p].id].status = "expired"
          /\ (pc[p] = "upd_log" /\ call[p].op = "sweep" /\ pc'[p] # pc[p]
                /\ call[p].from \notin TerminalStatuses)
             => /\ Len(events') = Len(events) + 1
                /\ events'[Len(events')].signatureRequestId = call[p].id
                /\ events'[Len(events')].eventType = "signature_expired"
                /\ events'[Len(events')].actorId = Null]_allvars

\* C27: a request's row and its audit trail change only in a step of a call
\* on that request: a transition on one request, successful or failed, leaves
\* every other request and its trail as they are
C27_RequestsIndependent ==
    [][\A r \in 1..Len(requests) :
          (requests'[r] # requests[r]
             \/ AppendOrder(events', r) # AppendOrder(events, r))
          => \E p \in Procs : StepOn(p, r)]_allvars

\* request 1 was rejected by a call that returned and then set to viewed by
\* a call that failed at its audit step; request 2 and its trail are as they
\* were created
C27_Witness ==
    /\ AllIdle
    /\ requests[1].status = "viewed"
    /\ result["A"] = "error"
    /\ Len(AppendOrder(events, 1)) = 2
    /\ events[Len(events)].eventType = "signature_rejected"
    /\ requests[2] = CreatedRequest(2)
    /\ AppendOrder(events, 2) = <<CreatedEvent(2)>>

\* ---------------------------------------------- properties, fourth part
\* C37: a recordSignatureCompletion that fails leaves the request's status as
\* it was before the call
C37_CompletionAllOrNothing ==
    [][\A p \in Procs :
          (/\ pc[p] \in {"rec_log", "rec_verify"}
           /\ pc'[p] = "idle"
           /\ result'[p] = "error"
           /\ RequestExists(requests, call[p].id))
          => requests'[call[p].id].status = call[p].from]_allvars

\* C38: a transition call whose UPDATE found no request of its id ends in an
\* error and appends no audit event, and every stored event names a stored
\* request
C38_UnknownIdFails ==
    /\ [](\A i \in 1..Len(events) :
             RequestExists(requests, events[i].signatureRequestId))
    /\ [][\A p \in Procs :
             (/\ pc[p] \in {"upd_log", "rec_log"}
              /\ pc'[p] # pc[p]
              /\ call[p].from = "")
             => /\ events' = events
                /\ pc'[p] = "idle"
                /\ result'[p] = "error"]_allvars

\* C39: the row of every event of the window carries the signer email, the
\* status and the dates of the event's stored parent request, whenever
\* before the event that request was created
C39_RowCarriesParent ==
    (pureCall.fn = "exportAuditTrailToCSV" /\ pureCall.called)
    => LET eventRows == ExportEvents(pureCall.args[2], pureCall.args[3],
                                     pureCall.args[4])
           requestRows == ExportRequests(pureCall.args[1], pureCall.args[3],
                                         pureCall.args[4])
       IN \A k \in 1..Len(eventRows) :
             (\A i \in 1..Len(pureCall.args[1]) :
                 pureCall.args[1][i].createdAt <= eventRows[k].createdAt)
             => CsvCells(requestRows, eventRows[k])
                    = CsvCells(pureCall.args[1], eventRows[k])

\* C40: for the id of a stored request the details procedure answers with
\* that request and a trail of it, and for any other id with not found
C40_DetailsOfEveryRequest ==
    \A id \in 1..(Len(requests) + 1) :
        \A answer \in getSignatureRequestDetails(requests, events, id) :
            IF RequestExists(requests, id)
            THEN /\ answer.found
                 /\ answer.request = requests[id]
                 /\ answer.auditTrail \in getSignatureAuditTrail(events, id)
            ELSE ~answer.found

C32_ClosedTransportNotRegistered ==
    [][\A s \in Sockets :
          (~Registered(s) /\ ConnectionId(s) \in DOMAIN adminConnections')
          => readyState[s] = 1]_allvars

\* C33: a socket whose connection handler has ended without attaching the
\* message and close handlers is not registered
C33_FailedHandlerNotRegistered ==
    \A s \in Sockets :
        (phase[s] = "done" /\ s \notin listening)
        => /\ ~Registered(s)
           /\ \A u \in DOMAIN connectionsByUserId :
                 ConnectionId(s) \notin connectionsByUserId[u]

\* C34: closeAllConnections asks every registered transport to close and
\* leaves both Maps empty, and no socket whose handler was awaiting the
\* verification of its token then is registered afterwards
C34_ShutdownIsFinal ==
    /\ [](\A s \in shutdown.inFlight : ~Registered(s))
    /\ [][closeAllConnections
             => /\ DOMAIN adminConnections' = {}
                /\ DOMAIN connectionsByUserId' = {}
                /\ \A c \in DOMAIN adminConnections :
                      readyState'[adminConnections[c].ws] \in {2, 3}]_allvars

\* C35: notifyAdmin delivers only to connections of the target user, and not
\* to one whose subscription set is non-empty and lacks the event's type
C35_PointToPointIsFiltered ==
    [][\A u \in AdminIdInputs :
          notifyAdmin(u, "audit_alert")
          => \A s \in Sockets :
                received'[s] # received[s]
                => /\ Registered(s)
                   /\ adminConnections[ConnectionId(s)].userId = u
                   /\ ~(subscriptions[s].items # {}
                          /\ "audit_alert" \notin subscriptions[s].items)]_allvars

\* C36: when a router procedure hands a signature_sent or signature_completed
\* event to the notifier, a request is stored whose audit trail holds the
\* matching transition event
C36_NotifiedTransitionIsCommitted ==
    [][(notified' # notified
          /\ notified'[Len(notified')] \in {"signature_sent", "signature_completed"})
          => \E r \in 1..Len(requests) :
                \E i \in TrailIdx(events, r) :
                    events[i].eventType
                        = IF notified'[Len(notified')] = "signature_sent"
                          THEN "request_sent" ELSE "signature_completed"]_allvars

====
